---- MODULE Spec2Model ----
(***************************************************************************)
(* Family Hub: the authentication, session and role-permission subsystem  *)
(* (family_hub/auth/authentication.py) over the record store, with the    *)
(* session glue of ui/pages.py and core/app.py.                           *)
(*                                                                         *)
(* Every interactive session is one thread of control.  A step of the     *)
(* model is one record-store call of one session together with the local  *)
(* computation that follows it up to the next store call, so the          *)
(* interleavings of the model are those of single get/save calls.         *)
(***************************************************************************)
EXTENDS Integers, Sequences, FiniteSets, TLC

(* ------------------------------ bounds -------------------------------- *)
\* at most this many User records are ever created
MaxUsers == 2
\* at most this many Family records are ever created
MaxFamilies == 1
\* the clock read by datetime.now() advances at most this many times
MaxClock == 1
\* at most this many Task records are ever created
MaxTasks == 1
\* at most this many ShoppingList records are ever created
MaxLists == 1
\* at most this many ShoppingItem records are ever created
MaxItems == 2

(* --------------------------- input domains ---------------------------- *)
None == "None"
Sessions == {"s1", "s2"}
Usernames == {"alice", "bob"}
Passwords == {"pw1", "pw2"}
FamilyNames == {"Smiths"}
\* a family id that no Family record ever has
NoSuchFamily == "no-such-family"
Roles == {"admin", "parent", "child", "guest"}
\* an administrator's role and one below it
SeqRoles == {"admin", "child"}

UserId(n) == "u" \o ToString(n)
FamilyId(n) == "f" \o ToString(n)

\* Python truthiness of an optional string argument
Truthy(x) == x # None /\ x # ""

(* ------------------------ finite maps (dicts) ------------------------- *)
EmptyMap == [k \in {} |-> None]
Put(f, k, v) == [x \in (DOMAIN f) \cup {k} |-> IF x = k THEN v ELSE f[x]]
Del(f, K) == [x \in (DOMAIN f) \ K |-> f[x]]
Has(f, k) == k \in DOMAIN f

Range(s) == {s[i] : i \in 1..Len(s)}

VARIABLES
  users,      \* record store: user id -> User record
  families,   \* record store: family id -> Family record
  session,    \* session id -> st.session_state of that session (key -> value)
  pc,         \* session id -> the store call the session's handler is about to make
  loc,        \* session id -> arguments and locals of the running handler
  clock,      \* the time datetime.now() reads
  tasks,            \* record store: task id -> Task record
  shopping_lists,   \* record store: list id -> ShoppingList record
  shopping_items,   \* record store: item id -> ShoppingItem record
  issued            \* the numbers of ShoppingList and ShoppingItem ids generated so far

vars == <<users, families, session, pc, loc, clock, tasks, shopping_lists, shopping_items, issued>>

(* --------------------------- Credential codec ------------------------- *)
\* hashlib.sha256(salt.encode() + password.encode()).hexdigest(): a digest of
\* the concatenation, modelled as collision-free
Sha256(salt, password) == "sha256(" \o salt \o password \o ")"

\* the hash record "<digest>:<salt>" as the sequence of its pieces, the
\* separator ":" being a piece of its own
hash_password(password, salt) == <<Sha256(salt, password), ":", salt>>

ColonCount(h) == Cardinality({i \in 1..Len(h) : h[i] = ":"})

\* check_password accepting any password for a well-formed hash record
check_password_AnyPassword(hashed_password, user_password) ==
  IF hashed_password = <<>> \/ ColonCount(hashed_password) = 0
    THEN [raised |-> FALSE, value |-> FALSE]
    ELSE [raised |-> ColonCount(hashed_password) # 1,
          value |-> ColonCount(hashed_password) = 1]

\* the string a sequence of pieces stands for
RECURSIVE Concat(_)
Concat(pieces) ==
  IF pieces = <<>> THEN "" ELSE Head(pieces) \o Concat(Tail(pieces))

\* check_password: [raised, value]; str.split(':') unpacked into two names
\* raises ValueError unless there is exactly one separator
check_password(hashed_password, user_password) ==
  IF hashed_password = <<>> \/ ColonCount(hashed_password) = 0
    THEN [raised |-> FALSE, value |-> FALSE]
  ELSE IF ColonCount(hashed_password) # 1
    THEN [raised |-> TRUE, value |-> FALSE]
  ELSE LET i == CHOOSE j \in 1..Len(hashed_password) : hashed_password[j] = ":"
           stored_hash == Concat(SubSeq(hashed_password, 1, i - 1))
           salt == Concat(SubSeq(hashed_password, i + 1, Len(hashed_password)))
       IN  [raised |-> FALSE, value |-> stored_hash = Sha256(salt, user_password)]

\* the passwords, salts and stored hash records the codec is tried with
CodecPasswords == {"", "pw1", "pw2"}
Salts == {"salt1", "salt2"}
HashRecords ==
  {<<>>, <<"digest">>, <<":">>, <<"digest", ":">>, <<":", ":">>,
   <<"digest", ":", "salt1", ":", "salt2">>,
   <<Sha256("salt1", "pw1"), ":", "salt1">>}

(* ------------------------------ data model ---------------------------- *)
\* User(...): a fresh id, is_active defaulting to True
NewUser(id, username, password_hash, role, family_id, last_login) ==
  [id |-> id, username |-> username, password_hash |-> password_hash,
   role |-> role, family_id |-> family_id, is_active |-> TRUE,
   last_login |-> last_login]

\* Family(name=..., created_by=...): a fresh id, no members
NewFamily(id, name, created_by) ==
  [id |-> id, name |-> name, created_by |-> created_by, members |-> <<>>]

(* ------------------------------ record store -------------------------- *)
\* a lookup that finds nothing returns None, here the record without an id
NoRecord == [id |-> None]
IsNone(r) == r.id = None

\* DataManager.get_user / get_family: the record or None
get_user(id) == IF Has(users, id) THEN users[id] ELSE NoRecord
get_family(id) == IF Has(families, id) THEN families[id] ELSE NoRecord

\* DataManager.get_user_by_username: the records with that username
UsersNamed(username) == {u \in {users[i] : i \in DOMAIN users} : u.username = username}

\* DataManager.save_user / save_family: insert or overwrite by id
save_user(user) == Put(users, user.id, user)
save_family(family) == Put(families, family.id, family)

\* uuid.uuid4(): never the same value twice; the n-th User, Family and salt
NextUserId == UserId(Cardinality(DOMAIN users) + 1)
NextFamilyId == FamilyId(Cardinality(DOMAIN families) + 1)
NextSalt == "salt" \o ToString(Cardinality(DOMAIN users) + 1)

(* ------------------------------- sessions ----------------------------- *)
Idle == [op |-> "idle"]

\* "user_id" in st.session_state and st.session_state.user_id
SessionUserId(s) ==
  IF Has(session[s], "user_id") /\ Truthy(session[s]["user_id"])
    THEN session[s]["user_id"] ELSE None

\* main() runs initialize_app() before anything else in every run
Ready(s) ==
  /\ pc[s] = "idle"
  /\ Has(session[s], "initialized")
  /\ session[s]["initialized"]

Init ==
  /\ users = EmptyMap
  /\ families = EmptyMap
  /\ session = [s \in Sessions |-> EmptyMap]
  /\ pc = [s \in Sessions |-> "idle"]
  /\ loc = [s \in Sessions |-> Idle]
  /\ clock = 0
  /\ tasks = EmptyMap
  /\ shopping_lists = EmptyMap
  /\ shopping_items = EmptyMap
  /\ issued = [lists |-> 0, items |-> 0]

(* --------------------------- core/app.py ------------------------------ *)
\* initialize_app: returns at once when already initialized; otherwise creates
\* the essential session entries (first run only), then initializes; a failure
\* of initialize_database or of initialize_components is re-raised
InitOutcomes == {"ok", "database_error", "components_error"}

\* initialize_app creating the session entries and initializing on every call
initialize_app_Always(ss, outcome) ==
  LET s0 == Put(Put(Put(Put(Put(ss, "initialized", FALSE),
                 "user_id", None), "current_page", "dashboard"),
                 "notifications", <<>>), "temp_data", EmptyMap)
  IN  CASE outcome = "database_error" -> s0
        [] outcome = "components_error" -> Put(s0, "config", "config")
        [] OTHER -> Put(Put(s0, "config", "config"), "initialized", TRUE)

initialize_app(ss, outcome) ==
  IF Has(ss, "initialized") /\ ss["initialized"] THEN ss
  ELSE LET s0 == IF ~Has(ss, "initialized")
                   THEN Put(Put(Put(Put(Put(ss, "initialized", FALSE),
                            "user_id", None), "current_page", "dashboard"),
                            "notifications", <<>>), "temp_data", EmptyMap)
                   ELSE ss
       IN  CASE outcome = "database_error" -> s0
             [] outcome = "components_error" -> Put(s0, "config", "config")
             [] OTHER -> Put(Put(s0, "config", "config"), "initialized", TRUE)

InitializeApp(s) ==
  /\ pc[s] = "idle"
  /\ \E outcome \in InitOutcomes :
       session' = [session EXCEPT ![s] = initialize_app(session[s], outcome)]
  /\ UNCHANGED <<users, families, pc, loc, clock, tasks, shopping_lists, shopping_items, issued>>

(* --------------------------- register_user ---------------------------- *)
DuplicateUsername == "Username already exists"
InvalidInput == "Either family_id or family_name must be provided"

\* the calls of register_user tried: a family_id is that of a stored Family,
\* or of none; email and display_name are stored as given and left out
RegArgs(passwords, roles) ==
  [username : Usernames, password : passwords,
   family_id : {None, NoSuchFamily} \cup DOMAIN families,
   family_name : {None} \cup FamilyNames,
   role : roles]

\* RegisterValidate without the username lookup
RegisterValidate_NoLookup(existing_user, family_id, family_name) ==
  IF ~Truthy(family_id) /\ ~Truthy(family_name) THEN InvalidInput ELSE "ok"

\* RegisterValidate without the family selector check
RegisterValidate_NoSelector(existing_user, family_id, family_name) ==
  IF existing_user # {} THEN DuplicateUsername ELSE "ok"

\* RegisterValidate with the two checks in the other order
RegisterValidate_SelectorFirst(existing_user, family_id, family_name) ==
  IF ~Truthy(family_id) /\ ~Truthy(family_name) THEN InvalidInput
  ELSE IF existing_user # {} THEN DuplicateUsername
  ELSE "ok"

\* lines 72-80: the username lookup, then the family selector
RegisterValidate(existing_user, family_id, family_name) ==
  IF existing_user # {} THEN DuplicateUsername
  ELSE IF ~Truthy(family_id) /\ ~Truthy(family_name) THEN InvalidInput
  ELSE "ok"

\* the locals of a running register_user call
RegLocals(a, result) ==
  [op |-> "register_user", args |-> a, family_id |-> a.family_id,
   user_id |-> None, family |-> NoRecord, result |-> result]

NoResult == <<FALSE, None>>

\* return success, message: the result is handed to the caller
RegisterReturn(s, success, message) ==
  /\ pc' = [pc EXCEPT ![s] = "reg_done"]
  /\ loc' = [loc EXCEPT ![s].result = <<success, message>>]

\* register_user, lines 72-80: DataManager.get_user_by_username and validation
RegisterCall(s, a) ==
  /\ Ready(s)
  /\ LET v == RegisterValidate(UsersNamed(a.username), a.family_id, a.family_name)
     IN  IF v # "ok"
           THEN /\ pc' = [pc EXCEPT ![s] = "reg_done"]
                /\ loc' = [loc EXCEPT ![s] = RegLocals(a, <<FALSE, v>>)]
           ELSE /\ pc' = [pc EXCEPT ![s] =
                     IF ~Truthy(a.family_id) THEN "reg_new_family" ELSE "reg_save_user"]
                /\ loc' = [loc EXCEPT ![s] = RegLocals(a, NoResult)]
  /\ UNCHANGED <<users, families, session, clock, tasks, shopping_lists, shopping_items, issued>>

RegisterLookup(s, passwords, roles) ==
  \E a \in RegArgs(passwords, roles) : RegisterCall(s, a)

\* lines 82-90: the new Family, created_by holding the username for now
RegisterNewFamily(s) ==
  /\ pc[s] = "reg_new_family"
  /\ Cardinality(DOMAIN families) < MaxFamilies
  /\ LET family == NewFamily(NextFamilyId, loc[s].args.family_name, loc[s].args.username)
     IN  /\ families' = save_family(family)
         /\ loc' = [loc EXCEPT ![s].family_id = family.id]
  /\ pc' = [pc EXCEPT ![s] = "reg_save_user"]
  /\ UNCHANGED <<users, session, clock, tasks, shopping_lists, shopping_items, issued>>

\* RegisterSaveUser looking the username up once more before it saves
RegisterSaveUser_Recheck(s) ==
  /\ pc[s] = "reg_save_user"
  /\ Cardinality(DOMAIN users) < MaxUsers
  /\ IF UsersNamed(loc[s].args.username) # {}
       THEN /\ RegisterReturn(s, FALSE, DuplicateUsername)
            /\ UNCHANGED users
       ELSE LET user == NewUser(NextUserId, loc[s].args.username,
                                hash_password(loc[s].args.password, NextSalt),
                                loc[s].args.role, loc[s].family_id, clock)
            IN  /\ users' = save_user(user)
                /\ loc' = [loc EXCEPT ![s].user_id = user.id]
                /\ pc' = [pc EXCEPT ![s] = "reg_get_family"]
  /\ UNCHANGED <<families, session, clock, tasks, shopping_lists, shopping_items, issued>>

\* lines 92-106: the new User, saved with the family id at hand
RegisterSaveUser(s) ==
  /\ pc[s] = "reg_save_user"
  /\ Cardinality(DOMAIN users) < MaxUsers
  /\ LET user == NewUser(NextUserId, loc[s].args.username,
                         hash_password(loc[s].args.password, NextSalt),
                         loc[s].args.role, loc[s].family_id, clock)
     IN  /\ users' = save_user(user)
         /\ loc' = [loc EXCEPT ![s].user_id = user.id]
  /\ pc' = [pc EXCEPT ![s] = "reg_get_family"]
  /\ UNCHANGED <<families, session, clock, tasks, shopping_lists, shopping_items, issued>>

\* lines 108-110: the family is read back; without one the call returns
RegisterGetFamily(s) ==
  /\ pc[s] = "reg_get_family"
  /\ LET family == get_family(loc[s].family_id)
     IN  IF IsNone(family)
           THEN RegisterReturn(s, TRUE, loc[s].user_id)
           ELSE /\ loc' = [loc EXCEPT ![s].family = family]
                /\ pc' = [pc EXCEPT ![s] = "reg_put_family"]
  /\ UNCHANGED <<users, families, session, clock, tasks, shopping_lists, shopping_items, issued>>

\* JoinFamily leaving created_by as it was read
JoinFamily_NoRepair(family, user_id, username) ==
  [family EXCEPT
     !.members = IF user_id \in Range(family.members)
                   THEN family.members ELSE Append(family.members, user_id)]

\* lines 111-118: the member appended, the placeholder created_by repaired
JoinFamily(family, user_id, username) ==
  [family EXCEPT
     !.members = IF user_id \in Range(family.members)
                   THEN family.members ELSE Append(family.members, user_id),
     !.created_by = IF family.created_by = username THEN user_id ELSE family.created_by]

\* lines 111-123: the family read earlier is modified and written back
RegisterPutFamily(s) ==
  /\ pc[s] = "reg_put_family"
  /\ families' = save_family(JoinFamily(loc[s].family, loc[s].user_id, loc[s].args.username))
  /\ RegisterReturn(s, TRUE, loc[s].user_id)
  /\ UNCHANGED <<users, session, clock, tasks, shopping_lists, shopping_items, issued>>

\* the caller, render_register_page lines 112-129: on success the new user is
\* signed in and sent to the dashboard
AfterRegister(ss, success, message) ==
  IF success THEN Put(Put(ss, "user_id", message), "current_page", "dashboard")
  ELSE ss

RegisterDone(s) ==
  /\ pc[s] = "reg_done"
  /\ session' = [session EXCEPT ![s] =
       AfterRegister(session[s], loc[s].result[1], loc[s].result[2])]
  /\ pc' = [pc EXCEPT ![s] = "idle"]
  /\ loc' = [loc EXCEPT ![s] = Idle]
  /\ UNCHANGED <<users, families, clock, tasks, shopping_lists, shopping_items, issued>>

\* registrations with one password and the default role
Register(s) ==
  \/ RegisterLookup(s, {"pw1"}, {"parent"})
  \/ RegisterNewFamily(s)
  \/ RegisterSaveUser(s)
  \/ RegisterGetFamily(s)
  \/ RegisterPutFamily(s)
  \/ RegisterDone(s)

(* ----------------------------- login_user ----------------------------- *)
LoginArgs == [username : Usernames, password : Passwords]

LoginLocals(a, user_data, result) ==
  [op |-> "login_user", args |-> a, user_data |-> user_data, result |-> result]

\* DataManager.get_user_by_username: a record of that username, or None
FoundByUsername(username) ==
  IF UsersNamed(username) = {} THEN {NoRecord} ELSE UsersNamed(username)

\* login_user, lines 137-143 and 152-153: the lookup and the password check
LoginCall(s, a) ==
  /\ Ready(s)
  /\ \E user_data \in FoundByUsername(a.username) :
       IF IsNone(user_data)
         THEN /\ pc' = [pc EXCEPT ![s] = "login_done"]
              /\ loc' = [loc EXCEPT ![s] = LoginLocals(a, NoRecord, <<FALSE, NoRecord>>)]
       ELSE IF check_password(user_data.password_hash, a.password).value
         THEN /\ pc' = [pc EXCEPT ![s] = "login_save"]
              /\ loc' = [loc EXCEPT ![s] = LoginLocals(a, user_data, <<FALSE, NoRecord>>)]
         ELSE /\ pc' = [pc EXCEPT ![s] = "login_done"]
              /\ loc' = [loc EXCEPT ![s] = LoginLocals(a, user_data, <<FALSE, NoRecord>>)]
  /\ UNCHANGED <<users, families, session, clock, tasks, shopping_lists, shopping_items, issued>>

LoginLookup(s) == \E a \in LoginArgs : LoginCall(s, a)

\* lines 144-150: the record read earlier is saved with a new last_login
LoginSave(s) ==
  /\ pc[s] = "login_save"
  /\ LET user == [loc[s].user_data EXCEPT !.last_login = clock]
     IN  /\ users' = save_user(user)
         /\ loc' = [loc EXCEPT ![s].result = <<TRUE, user>>]
  /\ pc' = [pc EXCEPT ![s] = "login_done"]
  /\ UNCHANGED <<families, session, clock, tasks, shopping_lists, shopping_items, issued>>

\* the caller, render_login_page lines 45-53: on success the session is given
\* the user's id
AfterLogin(ss, success, user_data) ==
  IF success THEN Put(Put(ss, "user_id", user_data.id), "current_page", "dashboard")
  ELSE ss

LoginDone(s) ==
  /\ pc[s] = "login_done"
  /\ session' = [session EXCEPT ![s] =
       AfterLogin(session[s], loc[s].result[1], loc[s].result[2])]
  /\ pc' = [pc EXCEPT ![s] = "idle"]
  /\ loc' = [loc EXCEPT ![s] = Idle]
  /\ UNCHANGED <<users, families, clock, tasks, shopping_lists, shopping_items, issued>>

Login(s) ==
  \/ LoginLookup(s)
  \/ LoginSave(s)
  \/ LoginDone(s)

(* ---------------------------- logout_user ----------------------------- *)
keys_to_keep == {"page", "initialized", "config"}

\* logout_user clearing the other entries but leaving user_id in place
logout_user_KeepUser(ss) ==
  LET keys_to_clear == {key \in DOMAIN ss : key \notin keys_to_keep \cup {"user_id"}}
  IN  Put(Del(ss, keys_to_clear), "page", "login")

\* logout_user deleting user_id only
logout_user_OnlyUser(ss) ==
  Put(Del(ss, {"user_id"}), "page", "login")

\* logout_user, lines 209-222
logout_user(ss) ==
  LET without_user == Del(ss, {"user_id"})
      keys_to_clear == {key \in DOMAIN without_user : key \notin keys_to_keep}
  IN  Put(Del(without_user, keys_to_clear), "page", "login")

\* the sidebar's logout button, components.py lines 110-112
LogoutUser(s) ==
  /\ Ready(s)
  /\ session' = [session EXCEPT ![s] = logout_user(session[s])]
  /\ UNCHANGED <<users, families, pc, loc, clock, tasks, shopping_lists, shopping_items, issued>>

(* ---------------------------- passive reads --------------------------- *)
\* is_authenticated without the is_active test
is_authenticated_IgnoreActive(ss, user_data) ==
  /\ Has(ss, "user_id")
  /\ Truthy(ss["user_id"])
  /\ ~IsNone(user_data)

\* is_authenticated, lines 163-168; user_data is what DataManager.get_user
\* returns for the session's user_id
is_authenticated(ss, user_data) ==
  /\ Has(ss, "user_id")
  /\ Truthy(ss["user_id"])
  /\ ~IsNone(user_data)
  /\ user_data.is_active

\* get_current_user without the is_active test
get_current_user_IgnoreActive(ss, user_data) ==
  IF Has(ss, "user_id") /\ Truthy(ss["user_id"]) /\ ~IsNone(user_data)
    THEN user_data
    ELSE NoRecord

\* get_current_user, lines 178-183
get_current_user(ss, user_data) ==
  IF /\ Has(ss, "user_id")
     /\ Truthy(ss["user_id"])
     /\ ~IsNone(user_data)
     /\ user_data.is_active
    THEN user_data
    ELSE NoRecord

\* the call of is_authenticated() in main(), line 189
IsAuthenticatedCall(s) ==
  /\ Ready(s)
  /\ loc' = [loc EXCEPT ![s] =
       [op |-> "is_authenticated",
        value |-> is_authenticated(session[s], get_user(SessionUserId(s)))]]
  /\ pc' = [pc EXCEPT ![s] = "read_done"]
  /\ UNCHANGED <<users, families, session, clock, tasks, shopping_lists, shopping_items, issued>>

\* GetCurrentUserCall logging an inactive user out, as check_authentication does
GetCurrentUserCall_Evict(s) ==
  /\ Ready(s)
  /\ LET user_data == get_user(SessionUserId(s))
     IN  /\ loc' = [loc EXCEPT ![s] =
              [op |-> "get_current_user",
               value |-> get_current_user(session[s], user_data)]]
         /\ session' = [session EXCEPT ![s] =
              IF ~IsNone(user_data) /\ ~user_data.is_active
                THEN logout_user(session[s]) ELSE session[s]]
  /\ pc' = [pc EXCEPT ![s] = "read_done"]
  /\ UNCHANGED <<users, families, clock, tasks, shopping_lists, shopping_items, issued>>

\* the call of get_current_user() in main(), line 200
GetCurrentUserCall(s) ==
  /\ Ready(s)
  /\ loc' = [loc EXCEPT ![s] =
       [op |-> "get_current_user",
        value |-> get_current_user(session[s], get_user(SessionUserId(s)))]]
  /\ pc' = [pc EXCEPT ![s] = "read_done"]
  /\ UNCHANGED <<users, families, session, clock, tasks, shopping_lists, shopping_items, issued>>

\* the value reaches the caller
ReadDone(s) ==
  /\ pc[s] = "read_done"
  /\ pc' = [pc EXCEPT ![s] = "idle"]
  /\ loc' = [loc EXCEPT ![s] = Idle]
  /\ UNCHANGED <<users, families, session, clock, tasks, shopping_lists, shopping_items, issued>>

PassiveRead(s) ==
  \/ IsAuthenticatedCall(s)
  \/ GetCurrentUserCall(s)
  \/ ReadDone(s)

(* ------------------------ login / register pages ---------------------- *)
\* main(), line 191: st.session_state.get("page", "login")
CurrentAuthPage(ss) == IF Has(ss, "page") THEN ss["page"] ELSE "login"

\* the pages main() shows to a session that is not authenticated
ShowsAuthPages(s) ==
  /\ Ready(s)
  /\ ~is_authenticated(session[s], get_user(SessionUserId(s)))

\* render_login_page, lines 58-60: the "Register" button
GoToRegister(s) ==
  /\ ShowsAuthPages(s)
  /\ CurrentAuthPage(session[s]) = "login"
  /\ session' = [session EXCEPT ![s] = Put(session[s], "page", "register")]
  /\ UNCHANGED <<users, families, pc, loc, clock, tasks, shopping_lists, shopping_items, issued>>

\* render_register_page, lines 134-136: the "Log In" button
GoToLogin(s) ==
  /\ ShowsAuthPages(s)
  /\ CurrentAuthPage(session[s]) # "login"
  /\ session' = [session EXCEPT ![s] = Put(session[s], "page", "login")]
  /\ UNCHANGED <<users, families, pc, loc, clock, tasks, shopping_lists, shopping_items, issued>>

(* ------------------------- check_authentication ----------------------- *)
\* check_authentication, lines 193-204: [session, raised, value].  For an
\* inactive user logout_user() deletes st.session_state.user_id and the
\* logger.warning argument of line 202 then reads it: AttributeError
check_authentication(ss, user_data) ==
  IF Has(ss, "user_id") /\ Truthy(ss["user_id"]) /\ ~IsNone(user_data)
    THEN IF user_data.is_active
           THEN [session |-> ss, raised |-> FALSE, value |-> <<TRUE, user_data>>]
           ELSE [session |-> logout_user(ss),
                 raised |-> ~Has(logout_user(ss), "user_id"),
                 value |-> <<FALSE, NoRecord>>]
    ELSE [session |-> ss, raised |-> FALSE, value |-> <<FALSE, NoRecord>>]

CheckAuthenticationCall(s) ==
  /\ Ready(s)
  /\ LET r == check_authentication(session[s], get_user(SessionUserId(s)))
     IN  /\ session' = [session EXCEPT ![s] = r.session]
         /\ loc' = [loc EXCEPT ![s] =
              [op |-> "check_authentication", raised |-> r.raised, value |-> r.value]]
  /\ pc' = [pc EXCEPT ![s] = "auth_done"]
  /\ UNCHANGED <<users, families, clock, tasks, shopping_lists, shopping_items, issued>>

\* the result, or the exception, reaches the caller
CheckAuthenticationDone(s) ==
  /\ pc[s] = "auth_done"
  /\ pc' = [pc EXCEPT ![s] = "idle"]
  /\ loc' = [loc EXCEPT ![s] = Idle]
  /\ UNCHANGED <<users, families, session, clock, tasks, shopping_lists, shopping_items, issued>>

CheckAuthentication(s) ==
  \/ CheckAuthenticationCall(s)
  \/ CheckAuthenticationDone(s)

(* --------------------------- permissions ------------------------------ *)
\* check_permission, lines 243-248
role_hierarchy == [admin |-> 3, parent |-> 2, child |-> 1, guest |-> 0]

\* check_permission with a strict comparison of the ranks
check_permission_Strict(user_data, required_role) ==
  IF IsNone(user_data) THEN FALSE
  ELSE role_hierarchy[user_data.role] > role_hierarchy[required_role]

\* check_permission, lines 236-251
check_permission(user_data, required_role) ==
  IF IsNone(user_data) THEN FALSE
  ELSE role_hierarchy[user_data.role] >= role_hierarchy[required_role]

\* a call of check_permission, as in setup_sidebar (components.py line 93),
\* render_budget_page (pages.py line 507) and update_user_role (line 281): the
\* user is a stored record or None, the required role any of the four
PermissionCall(s) ==
  /\ Ready(s)
  /\ \E u \in DOMAIN users \cup {None} : \E required_role \in Roles :
       loc' = [loc EXCEPT ![s] =
         [op |-> "check_permission", user_data |-> get_user(u),
          required_role |-> required_role,
          value |-> check_permission(get_user(u), required_role)]]
  /\ pc' = [pc EXCEPT ![s] = "perm_done"]
  /\ UNCHANGED <<users, families, session, clock, tasks, shopping_lists, shopping_items, issued>>

\* the value reaches the caller
PermissionDone(s) ==
  /\ pc[s] = "perm_done"
  /\ pc' = [pc EXCEPT ![s] = "idle"]
  /\ loc' = [loc EXCEPT ![s] = Idle]
  /\ UNCHANGED <<users, families, session, clock, tasks, shopping_lists, shopping_items, issued>>

CheckPermission(s) ==
  \/ PermissionCall(s)
  \/ PermissionDone(s)

\* the calls of update_user_role tried: the ids are those of stored users, or
\* of none
RoleArgs(roles) ==
  [user_id : DOMAIN users \cup {None}, new_role : roles,
   admin_user_id : DOMAIN users \cup {None}]

RoleLocals(a, user_data, result) ==
  [op |-> "update_user_role", args |-> a, user_data |-> user_data, result |-> result]

\* RoleCall without the permission check of the acting user
RoleCall_NoCheck(s, a) ==
  /\ Ready(s)
  /\ pc' = [pc EXCEPT ![s] = "role_get_user"]
  /\ loc' = [loc EXCEPT ![s] = RoleLocals(a, NoRecord, FALSE)]
  /\ UNCHANGED <<users, families, session, clock, tasks, shopping_lists, shopping_items, issued>>

\* update_user_role, lines 279-283: the acting user is read and checked
RoleCall(s, a) ==
  /\ Ready(s)
  /\ IF check_permission(get_user(a.admin_user_id), "admin")
       THEN /\ pc' = [pc EXCEPT ![s] = "role_get_user"]
            /\ loc' = [loc EXCEPT ![s] = RoleLocals(a, NoRecord, FALSE)]
       ELSE /\ pc' = [pc EXCEPT ![s] = "role_done"]
            /\ loc' = [loc EXCEPT ![s] = RoleLocals(a, NoRecord, FALSE)]
  /\ UNCHANGED <<users, families, session, clock, tasks, shopping_lists, shopping_items, issued>>

RoleCheckAdmin(s, roles) == \E a \in RoleArgs(roles) : RoleCall(s, a)

\* lines 285-289: the user to update is read
RoleGetUser(s) ==
  /\ pc[s] = "role_get_user"
  /\ LET user_data == get_user(loc[s].args.user_id)
     IN  IF IsNone(user_data)
           THEN pc' = [pc EXCEPT ![s] = "role_done"] /\ UNCHANGED loc
           ELSE /\ pc' = [pc EXCEPT ![s] = "role_save"]
                /\ loc' = [loc EXCEPT ![s].user_data = user_data]
  /\ UNCHANGED <<users, families, session, clock, tasks, shopping_lists, shopping_items, issued>>

\* lines 291-297: the record read earlier is saved with the new role
RoleSave(s) ==
  /\ pc[s] = "role_save"
  /\ users' = save_user([loc[s].user_data EXCEPT !.role = loc[s].args.new_role])
  /\ loc' = [loc EXCEPT ![s].result = TRUE]
  /\ pc' = [pc EXCEPT ![s] = "role_done"]
  /\ UNCHANGED <<families, session, clock, tasks, shopping_lists, shopping_items, issued>>

\* the call returns to its caller
RoleDone(s) ==
  /\ pc[s] = "role_done"
  /\ pc' = [pc EXCEPT ![s] = "idle"]
  /\ loc' = [loc EXCEPT ![s] = Idle]
  /\ UNCHANGED <<users, families, session, clock, tasks, shopping_lists, shopping_items, issued>>

UpdateUserRole(s) ==
  \/ RoleCheckAdmin(s, SeqRoles)
  \/ RoleGetUser(s)
  \/ RoleSave(s)
  \/ RoleDone(s)

(* ------------------------------- main() ------------------------------- *)
\* setup_sidebar, components.py lines 89-97: the pages offered to the user
available_pages(user_data) ==
  {"dashboard", "calendar", "tasks", "shopping"}
    \cup (IF check_permission(user_data, "parent") THEN {"budget"} ELSE {})
    \cup {"settings", "profile"}

\* setup_sidebar, lines 100-106: the page stored in the session, or the one
\* whose button was clicked (None: no button)
selected_page(ss, clicked) ==
  IF clicked # None THEN clicked
  ELSE IF Has(ss, "current_page") THEN ss["current_page"] ELSE "dashboard"

\* render_page showing the budget page without the permission check
render_page_NoCheck(page, user_data) ==
  IF page = "profile" THEN "settings" ELSE page

\* main(), lines 212-230, with render_budget_page, pages.py lines 504-516:
\* what the run shows
render_page(page, user_data) ==
  IF page = "budget"
    THEN IF ~check_permission(user_data, "parent")
           THEN "permission_warning" ELSE "budget"
  ELSE IF page = "profile" THEN "settings"
  ELSE IF page \in {"dashboard", "calendar", "tasks", "shopping", "settings"}
    THEN page
  ELSE "unknown_page"

\* main(), line 189: is_authenticated() answered true; when it answers false
\* the run shows the login or register page
MainIsAuthenticated(s) ==
  /\ Ready(s)
  /\ is_authenticated(session[s], get_user(SessionUserId(s)))
  /\ pc' = [pc EXCEPT ![s] = "main_get_user"]
  /\ loc' = [loc EXCEPT ![s] = [op |-> "main"]]
  /\ UNCHANGED <<users, families, session, clock, tasks, shopping_lists, shopping_items, issued>>

\* main(), lines 200-204: get_current_user(); without a user the run ends
\* with "User is authenticated but data could not be retrieved"
MainGetCurrentUser(s) ==
  /\ pc[s] = "main_get_user"
  /\ LET user_data == get_current_user(session[s], get_user(SessionUserId(s)))
     IN  /\ pc' = [pc EXCEPT ![s] =
                IF IsNone(user_data) THEN "main_error" ELSE "main_render"]
         /\ loc' = [loc EXCEPT ![s] = [op |-> "main", user_data |-> user_data]]
  /\ UNCHANGED <<users, families, session, clock, tasks, shopping_lists, shopping_items, issued>>

\* main(), lines 206-230: the sidebar and the selected page, for the user
\* record fetched in this run
MainRender(s) ==
  /\ pc[s] = "main_render"
  /\ \E clicked \in available_pages(loc[s].user_data) \cup {None} :
       LET page == selected_page(session[s], clicked)
           clicked_ss == IF clicked # None
                           THEN Put(session[s], "current_page", clicked)
                           ELSE session[s]
       IN  /\ session' = [session EXCEPT ![s] =
                IF page = "profile"
                  THEN Put(clicked_ss, "current_page", "settings") ELSE clicked_ss]
           /\ loc' = [loc EXCEPT ![s] =
                [op |-> "main", user_data |-> loc[s].user_data,
                 available_pages |-> available_pages(loc[s].user_data),
                 selected_page |-> page,
                 rendered |-> render_page(page, loc[s].user_data)]]
  /\ pc' = [pc EXCEPT ![s] = "main_rendered"]
  /\ UNCHANGED <<users, families, clock, tasks, shopping_lists, shopping_items, issued>>

\* the run of main() ends
MainDone(s) ==
  /\ pc[s] \in {"main_error", "main_rendered"}
  /\ pc' = [pc EXCEPT ![s] = "idle"]
  /\ loc' = [loc EXCEPT ![s] = Idle]
  /\ UNCHANGED <<users, families, session, clock, tasks, shopping_lists, shopping_items, issued>>

Main(s) ==
  \/ MainIsAuthenticated(s)
  \/ MainGetCurrentUser(s)
  \/ MainRender(s)
  \/ MainDone(s)

(* ------------------------- codec calls ------------------------------- *)
\* a call of hash_password, lines 24-26
HashCall(s) ==
  /\ pc[s] = "idle"
  /\ \E password \in CodecPasswords : \E salt \in Salts :
       loc' = [loc EXCEPT ![s] =
         [op |-> "hash_password", password |-> password,
          value |-> hash_password(password, salt)]]
  /\ pc' = [pc EXCEPT ![s] = "hashed"]
  /\ UNCHANGED <<users, families, session, clock, tasks, shopping_lists, shopping_items, issued>>

CheckLocals(password, hashed_password, user_password) ==
  [op |-> "check_password", password |-> password,
   hashed_password |-> hashed_password, user_password |-> user_password,
   raised |-> check_password(hashed_password, user_password).raised,
   value |-> check_password(hashed_password, user_password).value]

\* a call of check_password on the record hash_password has just returned
CheckHashedCall(s) ==
  /\ pc[s] = "hashed"
  /\ \E user_password \in CodecPasswords :
       loc' = [loc EXCEPT ![s] =
         CheckLocals(loc[s].password, loc[s].value, user_password)]
  /\ pc' = [pc EXCEPT ![s] = "checked"]
  /\ UNCHANGED <<users, families, session, clock, tasks, shopping_lists, shopping_items, issued>>

\* a call of check_password on a stored hash record
CheckStoredCall(s) ==
  /\ pc[s] = "idle"
  /\ \E hashed_password \in HashRecords : \E user_password \in CodecPasswords :
       loc' = [loc EXCEPT ![s] = CheckLocals(None, hashed_password, user_password)]
  /\ pc' = [pc EXCEPT ![s] = "checked"]
  /\ UNCHANGED <<users, families, session, clock, tasks, shopping_lists, shopping_items, issued>>

\* the value, or the exception, reaches the caller
CodecDone(s) ==
  /\ pc[s] \in {"hashed", "checked"}
  /\ pc' = [pc EXCEPT ![s] = "idle"]
  /\ loc' = [loc EXCEPT ![s] = Idle]
  /\ UNCHANGED <<users, families, session, clock, tasks, shopping_lists, shopping_items, issued>>

(* --------------------------- tasks/service.py ------------------------- *)
TaskStatuses == {"todo", "in_progress", "done", "cancelled"}

\* Task(...): a fresh id, completed_at defaulting to None
NewTask(id, status) == [id |-> id, status |-> status, completed_at |-> None]

\* DataManager.get_task / save_task
get_task(id) == IF Has(tasks, id) THEN tasks[id] ELSE NoRecord
save_task(task) == Put(tasks, task.id, task)

NextTaskId == "t" \o ToString(Cardinality(DOMAIN tasks) + 1)

\* create_task, lines 66-78
CreateTask(s) ==
  /\ pc[s] = "idle"
  /\ Cardinality(DOMAIN tasks) < MaxTasks
  /\ tasks' = save_task(NewTask(NextTaskId, "todo"))
  /\ UNCHANGED <<users, families, session, pc, loc, clock, shopping_lists, shopping_items, issued>>

\* update_task_status, lines 133-140: the status is assigned first, so the
\* test of line 137 compares new_status with itself
with_status(task, new_status, now) ==
  LET task1 == [task EXCEPT !.status = new_status]
  IN  IF new_status = "done" /\ task1.status # "done"
        THEN [task1 EXCEPT !.completed_at = now]
      ELSE IF new_status # "done"
        THEN [task1 EXCEPT !.completed_at = None]
      ELSE task1

\* update_task_status, lines 127-130: the task is read; ValueError without one
UpdateTaskStatusGet(s) ==
  /\ pc[s] = "idle"
  /\ \E task_id \in DOMAIN tasks \cup {None} : \E new_status \in TaskStatuses :
       LET task_data == get_task(task_id)
       IN  /\ loc' = [loc EXCEPT ![s] =
                [op |-> "update_task_status", task_id |-> task_id,
                 new_status |-> new_status, task_data |-> task_data,
                 raised |-> IsNone(task_data)]]
           /\ pc' = [pc EXCEPT ![s] =
                IF IsNone(task_data) THEN "task_done" ELSE "task_save"]
  /\ UNCHANGED <<users, families, session, clock, tasks, shopping_lists, shopping_items, issued>>

\* lines 133-143: the task read earlier is saved with the new status
UpdateTaskStatusSave(s) ==
  /\ pc[s] = "task_save"
  /\ tasks' = save_task(with_status(loc[s].task_data, loc[s].new_status, clock))
  /\ pc' = [pc EXCEPT ![s] = "task_done"]
  /\ UNCHANGED <<users, families, session, loc, clock, shopping_lists, shopping_items, issued>>

\* the saved task, or the exception, reaches the caller
UpdateTaskStatusDone(s) ==
  /\ pc[s] = "task_done"
  /\ pc' = [pc EXCEPT ![s] = "idle"]
  /\ loc' = [loc EXCEPT ![s] = Idle]
  /\ UNCHANGED <<users, families, session, clock, tasks, shopping_lists, shopping_items, issued>>

UpdateTaskStatus(s) ==
  \/ UpdateTaskStatusGet(s)
  \/ UpdateTaskStatusSave(s)
  \/ UpdateTaskStatusDone(s)

(* -------------------------- shopping/service.py ----------------------- *)
ListId(n) == "l" \o ToString(n)
ItemId(n) == "i" \o ToString(n)

\* ShoppingList(...) and ShoppingItem(...): purchased_at defaulting to None
NewShoppingList(id) == [id |-> id]
NewShoppingItem(id, list_id) ==
  [id |-> id, list_id |-> list_id, is_purchased |-> FALSE, purchased_at |-> None]

\* DataManager.get_shopping_item / save_shopping_item / delete_shopping_item
get_shopping_item(id) == IF Has(shopping_items, id) THEN shopping_items[id] ELSE NoRecord
save_shopping_item(item) == Put(shopping_items, item.id, item)
delete_shopping_item(id) == Del(shopping_items, {id})

\* DataManager.get_shopping_items_by_list: the ids of the items of a list
get_shopping_items_by_list(list_id) ==
  {i \in DOMAIN shopping_items : shopping_items[i].list_id = list_id}

\* create_shopping_list, lines 83-91
CreateShoppingList(s) ==
  /\ pc[s] = "idle"
  /\ issued.lists < MaxLists
  /\ shopping_lists' = Put(shopping_lists, ListId(issued.lists + 1),
                           NewShoppingList(ListId(issued.lists + 1)))
  /\ issued' = [issued EXCEPT !.lists = @ + 1]
  /\ UNCHANGED <<users, families, session, pc, loc, clock, tasks, shopping_items>>

\* add_item_to_list, lines 119-130, for a list that is stored when it is called
AddItemToList(s) ==
  /\ pc[s] = "idle"
  /\ issued.items < MaxItems
  /\ \E list_id \in DOMAIN shopping_lists :
       shopping_items' = save_shopping_item(NewShoppingItem(ItemId(issued.items + 1), list_id))
  /\ issued' = [issued EXCEPT !.items = @ + 1]
  /\ UNCHANGED <<users, families, session, pc, loc, clock, tasks, shopping_lists>>

\* toggle_item_purchased, lines 184-191: is_purchased is assigned first, so
\* the test of line 188 never holds
with_purchased(item, is_purchased, now) ==
  LET item1 == [item EXCEPT !.is_purchased = is_purchased]
  IN  IF is_purchased /\ ~item1.is_purchased
        THEN [item1 EXCEPT !.purchased_at = now]
      ELSE IF ~is_purchased
        THEN [item1 EXCEPT !.purchased_at = None]
      ELSE item1

\* toggle_item_purchased, lines 178-181: the item is read; ValueError without
TogglePurchasedGet(s) ==
  /\ pc[s] = "idle"
  /\ \E item_id \in DOMAIN shopping_items \cup {None} : \E is_purchased \in BOOLEAN :
       LET item_data == get_shopping_item(item_id)
       IN  /\ loc' = [loc EXCEPT ![s] =
                [op |-> "toggle_item_purchased", item_id |-> item_id,
                 is_purchased |-> is_purchased, item_data |-> item_data,
                 raised |-> IsNone(item_data)]]
           /\ pc' = [pc EXCEPT ![s] =
                IF IsNone(item_data) THEN "toggle_done" ELSE "toggle_save"]
  /\ UNCHANGED <<users, families, session, clock, tasks, shopping_lists, shopping_items, issued>>

\* lines 184-194: the item read earlier is saved with the new flag
TogglePurchasedSave(s) ==
  /\ pc[s] = "toggle_save"
  /\ shopping_items' =
       save_shopping_item(with_purchased(loc[s].item_data, loc[s].is_purchased, clock))
  /\ pc' = [pc EXCEPT ![s] = "toggle_done"]
  /\ UNCHANGED <<users, families, session, loc, clock, tasks, shopping_lists, issued>>

\* the saved item, or the exception, reaches the caller
TogglePurchasedDone(s) ==
  /\ pc[s] = "toggle_done"
  /\ pc' = [pc EXCEPT ![s] = "idle"]
  /\ loc' = [loc EXCEPT ![s] = Idle]
  /\ UNCHANGED <<users, families, session, clock, tasks, shopping_lists, shopping_items, issued>>

ToggleItemPurchased(s) ==
  \/ TogglePurchasedGet(s)
  \/ TogglePurchasedSave(s)
  \/ TogglePurchasedDone(s)

\* delete_shopping_list, line 210: the items of the list are read
DeleteListGetItems(s) ==
  /\ pc[s] = "idle"
  /\ \E list_id \in DOMAIN shopping_lists :
       loc' = [loc EXCEPT ![s] =
         [op |-> "delete_shopping_list", list_id |-> list_id,
          items |-> get_shopping_items_by_list(list_id)]]
  /\ pc' = [pc EXCEPT ![s] = "delete_items"]
  /\ UNCHANGED <<users, families, session, clock, tasks, shopping_lists, shopping_items, issued>>

\* lines 211-212: one turn of the loop, one item deleted
DeleteListItem(s) ==
  /\ pc[s] = "delete_items"
  /\ loc[s].items # {}
  /\ LET item == CHOOSE i \in loc[s].items : TRUE
     IN  /\ shopping_items' = delete_shopping_item(item)
         /\ loc' = [loc EXCEPT ![s].items = @ \ {item}]
  /\ UNCHANGED <<users, families, session, pc, clock, tasks, shopping_lists, issued>>

\* line 215: the list is deleted and the call returns
DeleteListItself(s) ==
  /\ pc[s] = "delete_items"
  /\ loc[s].items = {}
  /\ shopping_lists' = Del(shopping_lists, {loc[s].list_id})
  /\ pc' = [pc EXCEPT ![s] = "delete_done"]
  /\ UNCHANGED <<users, families, session, loc, clock, tasks, shopping_items, issued>>

\* the result reaches the caller
DeleteListDone(s) ==
  /\ pc[s] = "delete_done"
  /\ pc' = [pc EXCEPT ![s] = "idle"]
  /\ loc' = [loc EXCEPT ![s] = Idle]
  /\ UNCHANGED <<users, families, session, clock, tasks, shopping_lists, shopping_items, issued>>

DeleteShoppingList(s) ==
  \/ DeleteListGetItems(s)
  \/ DeleteListItem(s)
  \/ DeleteListItself(s)
  \/ DeleteListDone(s)

(* --------------------------- administration --------------------------- *)
\* an administrator sets is_active = false on a stored user
DeactivateUser ==
  \E u \in DOMAIN users :
    /\ users[u].is_active
    /\ users' = [users EXCEPT ![u].is_active = FALSE]
    /\ UNCHANGED <<families, session, pc, loc, clock, tasks, shopping_lists, shopping_items, issued>>

(* -------------------------------- time -------------------------------- *)
\* time passes
Tick ==
  /\ clock < MaxClock
  /\ clock' = clock + 1
  /\ UNCHANGED <<users, families, session, pc, loc, tasks, shopping_lists, shopping_items, issued>>

(* --------------------------- specifications --------------------------- *)
\* registrations of all sessions interleaved at single store calls
Next ==
  \E s \in Sessions :
    \/ InitializeApp(s)
    \/ Register(s)

Spec == Init /\ [][Next]_vars

\* the handlers of one session, so one call at a time, each running to
\* completion before the next starts, while an administrator deactivates users
\* and time passes; registrations and role updates with the two roles SeqRoles
RegisterSeq(s) ==
  \/ RegisterLookup(s, {"pw1"}, SeqRoles)
  \/ RegisterNewFamily(s)
  \/ RegisterSaveUser(s)
  \/ RegisterGetFamily(s)
  \/ RegisterPutFamily(s)
  \/ RegisterDone(s)

NextSeq ==
  \/ \E s \in {"s1"} :
       \/ InitializeApp(s)
       \/ RegisterSeq(s)
       \/ Login(s)
       \/ UpdateUserRole(s)
       \/ LogoutUser(s)
       \/ CheckAuthentication(s)
       \/ PassiveRead(s)
       \/ GoToRegister(s)
       \/ GoToLogin(s)
  \/ DeactivateUser
  \/ Tick

SpecSeq == Init /\ [][NextSeq]_vars

\* one session registering users of all four roles and asking for permissions
RegisterAllRoles(s) ==
  \/ RegisterLookup(s, {"pw1"}, Roles)
  \/ RegisterNewFamily(s)
  \/ RegisterSaveUser(s)
  \/ RegisterGetFamily(s)
  \/ RegisterPutFamily(s)
  \/ RegisterDone(s)

NextPerm ==
  \E s \in {"s1"} :
    \/ InitializeApp(s)
    \/ RegisterAllRoles(s)
    \/ CheckPermission(s)

SpecPerm == Init /\ [][NextPerm]_vars

\* a user's session and an administrator's session, interleaved at single
\* store calls: both log in, the one registers users and logs out and the
\* other updates roles
UserSession == "s1"
AdminSession == "s2"

NextConc ==
  \/ \E s \in Sessions :
       \/ InitializeApp(s)
       \/ Login(s)
  \/ RegisterSeq(UserSession)
  \/ LogoutUser(UserSession)
  \/ UpdateUserRole(AdminSession)

SpecConc == Init /\ [][NextConc]_vars

\* the runs of main() of one session whose users are registered, given other
\* roles and deactivated
NextMain ==
  \/ \E s \in {"s1"} :
       \/ InitializeApp(s)
       \/ RegisterSeq(s)
       \/ UpdateUserRole(s)
       \/ Main(s)
  \/ DeactivateUser

SpecMain == Init /\ [][NextMain]_vars

\* the task service called by all sessions while time passes
NextTasks ==
  \/ \E s \in Sessions :
       \/ CreateTask(s)
       \/ UpdateTaskStatus(s)
  \/ Tick

SpecTasks == Init /\ [][NextTasks]_vars

\* the shopping service called by all sessions, interleaved at single store
\* calls, while time passes
NextShopping ==
  \/ \E s \in Sessions :
       \/ CreateShoppingList(s)
       \/ AddItemToList(s)
       \/ ToggleItemPurchased(s)
       \/ DeleteShoppingList(s)
  \/ Tick

SpecShopping == Init /\ [][NextShopping]_vars

\* the credential codec called with every password, salt and hash record
NextCodec ==
  \E s \in Sessions :
    \/ HashCall(s)
    \/ CheckHashedCall(s)
    \/ CheckStoredCall(s)
    \/ CodecDone(s)

SpecCodec == Init /\ [][NextCodec]_vars

(* ===================== properties of register_user ==================== *)
StoreUnchanged == users' = users /\ families' = families

\* session s is inside register_user (it has not returned yet)
InRegister(s) ==
  pc[s] \in {"reg_new_family", "reg_save_user", "reg_get_family", "reg_put_family"}

\* the step in which session s calls register_user
RegisterCalled(s) ==
  /\ pc[s] = "idle"
  /\ pc'[s] # "idle"
  /\ loc'[s].op = "register_user"

NoSelector(a) == ~Truthy(a.family_id) /\ ~Truthy(a.family_name)

\* session s holds the result of a returned register_user call
Returned(s) == pc[s] = "reg_done"

\* C2: register_user called with a username that is already stored returns
\* (False, "Username already exists") and writes nothing: neither the call nor
\* the handling of its result changes a User or a Family record.
C2_DuplicateWritesNothing ==
  [][\A s \in Sessions :
       /\ (RegisterCalled(s) /\ UsersNamed(loc'[s].args.username) # {})
            => /\ pc'[s] = "reg_done"
               /\ loc'[s].result = <<FALSE, DuplicateUsername>>
               /\ StoreUnchanged
       /\ (Returned(s) /\ ~loc[s].result[1] /\ pc'[s] # pc[s]) => StoreUnchanged]_vars

C2_Witness ==
  \E s \in Sessions :
    /\ Returned(s)
    /\ loc[s].result = <<FALSE, DuplicateUsername>>
    /\ UsersNamed(loc[s].args.username) # {}

CreatorRunning(f) ==
  \E s \in Sessions :
    /\ InRegister(s)
    /\ ~Truthy(loc[s].args.family_id)
    /\ loc[s].family_id = f

\* C6: once the registration that created a Family has returned, the stored
\* created_by of that Family is a user id, not the placeholder username, in
\* every interleaving of registrations.
C6_CreatedByResolved ==
  \A f \in DOMAIN families :
    families[f].created_by \in DOMAIN users \/ CreatorRunning(f)

\* C7: when no register_user call is running, a user is in the members of a
\* Family exactly when the user's family_id is that Family's id.
C7_MembersMatchFamilyId ==
  (\A s \in Sessions : ~InRegister(s))
    => \A f \in DOMAIN families : \A u \in DOMAIN users :
         (u \in Range(families[f].members)) <=> (users[u].family_id = f)

\* C8: every stored User's family_id is the id of a stored Family, and every
\* Family's members are stored users, none of them twice.
C8_References ==
  /\ \A u \in DOMAIN users : users[u].family_id \in DOMAIN families
  /\ \A f \in DOMAIN families :
       /\ Range(families[f].members) \subseteq DOMAIN users
       /\ Cardinality(Range(families[f].members)) = Len(families[f].members)

\* C10: a registration that has passed the username lookup saves its User
\* whatever has been stored in the meantime: the save adds a record under a
\* new id and leaves every stored record as it is, one of the same username
\* included; so two calls that both passed the lookup both succeed and leave
\* two records of one username.
C10_SaveAfterLookupUnconditional ==
  [][\A s \in Sessions :
       (pc[s] = "reg_save_user" /\ pc'[s] # "reg_save_user")
         => /\ pc'[s] = "reg_get_family"
            /\ loc'[s].user_id \notin DOMAIN users
            /\ loc'[s].user_id \in DOMAIN users'
            /\ users'[loc'[s].user_id].username = loc[s].args.username
            /\ \A u \in DOMAIN users : users'[u] = users[u]]_vars

C10_Witness ==
  \E s, t \in Sessions :
    /\ s # t
    /\ Returned(s) /\ Returned(t)
    /\ loc[s].result[1] /\ loc[t].result[1]
    /\ loc[s].args.username = loc[t].args.username
    /\ loc[s].result[2] # loc[t].result[2]
    /\ {loc[s].result[2], loc[t].result[2]} \subseteq DOMAIN users
    /\ users[loc[s].result[2]].username = users[loc[t].result[2]].username

(* ================== properties of check_authentication ================ *)
\* the user the session's user_id refers to is stored and inactive
SessionUserInactive(s) ==
  /\ SessionUserId(s) # None
  /\ Has(users, SessionUserId(s))
  /\ ~users[SessionUserId(s)].is_active

\* C1: when the session holds the id of a stored user with is_active = false,
\* check_authentication() returns (False, None), completes without raising and
\* leaves the session without a user_id.
C1_InactiveReturnsFalse ==
  [][\A s \in Sessions :
       (pc[s] = "idle" /\ pc'[s] = "auth_done" /\ SessionUserInactive(s))
         => /\ ~loc'[s].raised
            /\ loc'[s].value = <<FALSE, NoRecord>>
            /\ ~Has(session'[s], "user_id")]_vars

(* ============== properties of calls made one at a time ================ *)
\* the returned call created its Family: family_name given, family_id not
CreatedFamily(s) ==
  /\ Returned(s)
  /\ loc[s].result[1]
  /\ ~Truthy(loc[s].args.family_id)
  /\ Truthy(loc[s].args.family_name)

\* C5: when a register_user call made with a family_name and no family_id has
\* returned success, the created_by of the Family it created is the new
\* user's id, not the username, and the new user's id is in its members.
C5_CreatorRecorded ==
  \A s \in Sessions :
    CreatedFamily(s)
      => /\ Has(families, loc[s].family_id)
         /\ Has(users, loc[s].result[2])
         /\ families[loc[s].family_id].created_by = loc[s].result[2]
         /\ families[loc[s].family_id].created_by # loc[s].args.username
         /\ loc[s].result[2] \in Range(families[loc[s].family_id].members)

C5_Witness ==
  \E s \in Sessions :
    /\ CreatedFamily(s)
    /\ families[loc[s].family_id].created_by = loc[s].result[2]

\* C9: with the register_user calls made one at a time, no two stored User
\* records have the same username, whatever registrations, logins and role
\* updates have been made.
C9_UsernamesUnique ==
  \A u, v \in DOMAIN users :
    u # v => users[u].username # users[v].username

C9_Witness ==
  /\ Cardinality(DOMAIN users) = 2
  /\ \E s \in Sessions :
       /\ Returned(s)
       /\ loc[s].result = <<FALSE, DuplicateUsername>>
  /\ \E u \in DOMAIN users : users[u].role # "admin" /\ users[u].last_login > 0

(* ===================== properties of check_permission ================= *)
\* the rank of a role: GUEST=0 < CHILD=1 < PARENT=2 < ADMIN=3
Rank(role) ==
  CASE role = "guest" -> 0
    [] role = "child" -> 1
    [] role = "parent" -> 2
    [] role = "admin" -> 3

\* C11: check_permission(user, required_role) returns false when the user is
\* absent and otherwise true exactly when the rank of the user's role is at
\* least the rank of required_role, a boolean for each of the 4x4 combinations.
C11_PermissionByRank ==
  \A s \in Sessions :
    (pc[s] = "perm_done")
      => /\ loc[s].value \in BOOLEAN
         /\ IsNone(loc[s].user_data) => ~loc[s].value
         /\ ~IsNone(loc[s].user_data)
              => (loc[s].value
                    <=> Rank(loc[s].user_data.role) >= Rank(loc[s].required_role))

C11_Witness ==
  \E s \in Sessions :
    /\ pc[s] = "perm_done"
    /\ ~IsNone(loc[s].user_data)
    /\ loc[s].user_data.role = "parent"
    /\ loc[s].required_role = "parent"
    /\ loc[s].value

(* ======================== properties of login_user ==================== *)
\* the step in which session s calls login_user
LoginCalled(s) ==
  /\ pc[s] = "idle"
  /\ pc'[s] # "idle"
  /\ loc'[s].op = "login_user"

\* password is the one the stored record u was registered with
CorrectPassword(u, password) ==
  u.password_hash = hash_password(password, u.password_hash[3])

\* a stored user has this username, and none of that username this password
WrongPassword(a) ==
  /\ UsersNamed(a.username) # {}
  /\ \A u \in UsersNamed(a.username) : ~CorrectPassword(u, a.password)

\* session s holds the result of a failed login_user call
LoginFailed(s) ==
  /\ pc[s] = "login_done"
  /\ ~loc[s].result[1]

\* C12: login_user with a stored username and a wrong password, and login_user
\* with a username that is not stored, both return (False, None); neither the
\* call nor the handling of its result changes the session or a stored record.
C12_FailuresAlike ==
  [][\A s \in Sessions :
       /\ (LoginCalled(s)
             /\ (UsersNamed(loc'[s].args.username) = {} \/ WrongPassword(loc'[s].args)))
            => /\ pc'[s] = "login_done"
               /\ loc'[s].result = <<FALSE, NoRecord>>
               /\ session' = session
               /\ StoreUnchanged
       /\ (LoginFailed(s) /\ pc'[s] # pc[s])
            => /\ session'[s] = session[s]
               /\ StoreUnchanged]_vars

C12_Witness ==
  \E s, t \in Sessions :
    /\ LoginFailed(s) /\ LoginFailed(t)
    /\ WrongPassword(loc[s].args)
    /\ UsersNamed(loc[t].args.username) = {}
    /\ loc[s].result = loc[t].result
    /\ \A r \in Sessions : SessionUserId(r) = None

\* the record DataManager.get_user returns for the user_id of session state
\* ss, None when ss holds none
StoredUserOf(ss, store) ==
  IF Has(ss, "user_id") /\ Truthy(ss["user_id"]) /\ Has(store, ss["user_id"])
    THEN store[ss["user_id"]]
    ELSE NoRecord

\* C13: a login with a stored username and its correct password saves the user
\* with last_login = now and returns the saved record; its caller puts the
\* user's id into the session, and right afterwards the session's current
\* identity (get_current_user) is that user.
C13_LoginEstablishesIdentity ==
  [][\A s \in Sessions :
       /\ (pc[s] = "login_save" /\ pc'[s] # pc[s])
            => /\ pc'[s] = "login_done"
               /\ loc'[s].result[1]
               /\ loc'[s].result[2].last_login = clock
               /\ users'[loc[s].user_data.id] = loc'[s].result[2]
       /\ (pc[s] = "login_done" /\ loc[s].result[1] /\ pc'[s] # pc[s])
            => /\ session'[s]["user_id"] = loc[s].result[2].id
               /\ get_current_user(session'[s], StoredUserOf(session'[s], users')).id
                    = loc[s].result[2].id]_vars

(* ======================= properties of logout_user ==================== *)
\* the step of session s is a run of logout_user
LogoutStep(s) == session'[s] = logout_user(session[s])

\* C14: logout_user, from any session state, leaves the session without a
\* user_id, so that afterwards is_authenticated() is false and
\* get_current_user() returns None.
C14_LogoutClearsIdentity ==
  [][\A s \in Sessions :
       LogoutStep(s)
         => /\ ~Has(session'[s], "user_id")
            /\ ~is_authenticated(session'[s], StoredUserOf(session'[s], users'))
            /\ IsNone(get_current_user(session'[s], StoredUserOf(session'[s], users')))]_vars

\* a session that was logged out while it held the id of a stored user
C14_Witness ==
  \E s \in Sessions :
    /\ pc[s] = "idle"
    /\ ~Has(session[s], "user_id")
    /\ Has(session[s], "initialized")
    /\ \E u \in DOMAIN users : ~users[u].is_active
    /\ \E u \in DOMAIN users : users[u].is_active

\* the entries logout_user is said to keep
AllowList == {"page", "initialized", "config"}

\* C15 as claimed: logout_user removes every entry outside the allow-list and
\* every allow-listed entry keeps the value it had.
C15_Original ==
  [][\A s \in Sessions :
       LogoutStep(s)
         => /\ DOMAIN session'[s] \subseteq AllowList
            /\ \A k \in DOMAIN session[s] \cap AllowList :
                 Has(session'[s], k) /\ session'[s][k] = session[s][k]]_vars

\* C15 amended: logout_user removes every entry outside the allow-list
\* {page, initialized, config}, current_page among the removed; initialized
\* and config keep the values they had, and page is "login" afterwards
\* whatever it was.
C15_AllowListPageReset ==
  [][\A s \in Sessions :
       LogoutStep(s)
         => /\ DOMAIN session'[s] \subseteq AllowList
            /\ ~Has(session'[s], "current_page")
            /\ \A k \in DOMAIN session[s] \cap {"initialized", "config"} :
                 Has(session'[s], k) /\ session'[s][k] = session[s][k]
            /\ session'[s]["page"] = "login"]_vars

\* a logged-out session: the allow-listed entries and nothing else
C15_Witness ==
  \E s \in Sessions :
    /\ DOMAIN session[s] = AllowList
    /\ session[s]["page"] = "login"
    /\ session[s]["initialized"]
    /\ users # EmptyMap

(* ====================== properties of the passive reads =============== *)
\* the step in which session s calls the passive read op
ReadCalled(s, op) ==
  /\ pc[s] = "idle"
  /\ pc'[s] = "read_done"
  /\ loc'[s].op = op

\* the session holds a user_id, the id resolves in the store and the stored
\* record has is_active true
HoldsActiveUser(s) ==
  /\ Has(session[s], "user_id")
  /\ session[s]["user_id"] \in DOMAIN users
  /\ users[session[s]["user_id"]].is_active

\* C16: get_current_user() returns a user record only if the session holds a
\* user_id, the id resolves in the store and the stored record is active, and
\* then it is that record; in every other case it returns None and
\* is_authenticated() returns false.
C16_CurrentUserOnlyIfActive ==
  [][\A s \in Sessions :
       /\ ReadCalled(s, "get_current_user")
            => loc'[s].value = IF HoldsActiveUser(s)
                                 THEN users[session[s]["user_id"]] ELSE NoRecord
       /\ ReadCalled(s, "is_authenticated")
            => (loc'[s].value <=> HoldsActiveUser(s))]_vars

C16_Witness ==
  \E s \in Sessions :
    /\ pc[s] = "read_done"
    /\ loc[s].op = "get_current_user"
    /\ IsNone(loc[s].value)
    /\ SessionUserInactive(s)

\* C17: is_authenticated() and get_current_user() change nothing: the session,
\* a user_id of a deactivated user included, and the store are the same before
\* and after the call.
C17_PassiveReadsChangeNothing ==
  [][\A s \in Sessions :
       (ReadCalled(s, "is_authenticated") \/ ReadCalled(s, "get_current_user")
          \/ (pc[s] = "read_done" /\ pc'[s] # pc[s]))
         => /\ session' = session
            /\ StoreUnchanged]_vars

C17_Witness ==
  \E s \in Sessions :
    /\ pc[s] = "read_done"
    /\ loc[s].op = "is_authenticated"
    /\ ~loc[s].value
    /\ SessionUserInactive(s)
    /\ Has(session[s], "current_page")

\* C18: the authentication checks answer from the record stored at the time
\* of the call: for a session holding the id of a stored user,
\* is_authenticated() is that record's is_active, get_current_user() and
\* check_authentication() report the stored record, its stored role included,
\* when it is active and no user when it is not, the session being
\* unauthenticated after check_authentication() found it inactive.
C18_ChecksReadTheStore ==
  [][\A s \in Sessions :
       (pc[s] = "idle" /\ SessionUserId(s) \in DOMAIN users)
         => LET stored == users[SessionUserId(s)]
            IN  /\ ReadCalled(s, "is_authenticated")
                     => loc'[s].value = stored.is_active
                /\ (ReadCalled(s, "get_current_user") /\ stored.is_active)
                     => /\ loc'[s].value = stored
                        /\ loc'[s].value.role = stored.role
                /\ (ReadCalled(s, "get_current_user") /\ ~stored.is_active)
                     => IsNone(loc'[s].value)
                /\ (pc'[s] = "auth_done" /\ stored.is_active)
                     => loc'[s].value = <<TRUE, stored>>
                /\ (pc'[s] = "auth_done" /\ ~stored.is_active)
                     => /\ ~loc'[s].value[1]
                        /\ ~is_authenticated(session'[s],
                                             StoredUserOf(session'[s], users'))]_vars

\* the session still holds the id of a user that has logged in and is now
\* deactivated, and the check just made says so
C18_Witness ==
  \E s \in Sessions :
    /\ pc[s] = "read_done"
    /\ loc[s].op = "is_authenticated"
    /\ ~loc[s].value
    /\ SessionUserInactive(s)
    /\ users[SessionUserId(s)].role = "child"
    /\ \E u \in DOMAIN users : users[u].role = "admin" /\ users[u].is_active

(* ==================== properties of update_user_role ================== *)
\* the step in which session s calls update_user_role
RoleCalled(s) ==
  /\ pc[s] = "idle"
  /\ pc'[s] # "idle"
  /\ loc'[s].op = "update_user_role"

\* the acting user of the call is stored with role ADMIN
ActingAdmin(a) ==
  /\ a.admin_user_id \in DOMAIN users
  /\ users[a.admin_user_id].role = "admin"

\* C19: update_user_role with an acting user below ADMIN returns false and
\* leaves the stored roles as they are; with an acting ADMIN and a stored
\* target it returns true and the target's stored role is new_role.
C19_RoleUpdateByAdminOnly ==
  [][\A s \in Sessions :
       /\ (RoleCalled(s) /\ ~ActingAdmin(loc'[s].args))
            => /\ pc'[s] = "role_done"
               /\ ~loc'[s].result
               /\ users' = users
       /\ (RoleCalled(s) /\ ActingAdmin(loc'[s].args))
            => pc'[s] = "role_get_user"
       /\ (pc[s] = "role_get_user" /\ pc'[s] # pc[s]
             /\ loc[s].args.user_id \in DOMAIN users)
            => pc'[s] = "role_save"
       /\ (pc[s] = "role_save" /\ pc'[s] # pc[s])
            => /\ pc'[s] = "role_done"
               /\ loc'[s].result
               /\ get_user(loc[s].args.user_id)'.role = loc[s].args.new_role
       /\ (pc[s] = "role_done" /\ pc'[s] # pc[s] /\ loc[s].result)
            => get_user(loc[s].args.user_id).role = loc[s].args.new_role]_vars

C19_Witness ==
  \E s \in Sessions :
    /\ pc[s] = "role_done"
    /\ loc[s].result
    /\ loc[s].args.user_id # loc[s].args.admin_user_id
    /\ users[loc[s].args.user_id].role = loc[s].args.new_role
    /\ users[loc[s].args.admin_user_id].role = "admin"

\* C20: the stored role of a user changes only in the save of an
\* update_user_role call that passed the ADMIN check, and then to that call's
\* new_role; no other step of any session changes it.
C20_RoleChangesOnlyByUpdate ==
  [][\A u \in DOMAIN users :
       (users'[u].role # users[u].role)
         => \E s \in Sessions :
              /\ pc[s] = "role_save"
              /\ pc'[s] = "role_done"
              /\ loc[s].args.user_id = u
              /\ users'[u].role = loc[s].args.new_role]_vars

(* ===================== properties of the credential codec ============= *)
\* session s holds the result of check_password on a record made by
\* hash_password
CheckedFresh(s) ==
  /\ pc[s] = "checked"
  /\ loc[s].password # None

\* C21: check_password(hash_password(p1), p2) is true if and only if p1 = p2,
\* for all passwords p1 and p2 of the bounded set and every salt.
C21_VerifyIffSamePassword ==
  \A s \in Sessions :
    CheckedFresh(s)
      => /\ ~loc[s].raised
         /\ loc[s].value <=> (loc[s].password = loc[s].user_password)

C21_Witness ==
  \E s, t \in Sessions :
    /\ CheckedFresh(s) /\ CheckedFresh(t)
    /\ loc[s].password = loc[s].user_password /\ loc[s].value
    /\ loc[t].password # loc[t].user_password /\ ~loc[t].value

\* C22: for every stored hash record that is empty or does not hold exactly
\* one ':' separator, check_password returns false, as a value and not as a
\* raised error, whatever the candidate password.
C22_FailsClosed ==
  \A s \in Sessions :
    (pc[s] = "checked"
       /\ (loc[s].hashed_password = <<>> \/ ColonCount(loc[s].hashed_password) # 1))
      => /\ ~loc[s].raised
         /\ ~loc[s].value

(* ================ properties of the order of the steps ================ *)
\* the step is one of session s inside register_user
RegisterStep(s) == InRegister(s) /\ pc'[s] # pc[s]

\* the arguments of the running register_user call of s pass both validations:
\* a family selector is given and no other stored user has the username
Validated(s) ==
  /\ ~NoSelector(loc[s].args)
  /\ \A u \in UsersNamed(loc[s].args.username) : u.id = loc[s].user_id

\* C23: within one session, register_user writes nothing in its validation
\* step and writes only for arguments that passed both validations; its User
\* is saved, without touching a Family, before its Family is read back and
\* written; and the session's user_id changes in a login only after
\* check_password has accepted the password.
C23_StepsInOrder ==
  [][\A s \in Sessions :
       /\ RegisterCalled(s) => StoreUnchanged
       /\ (RegisterStep(s) /\ ~StoreUnchanged) => Validated(s)
       /\ (RegisterStep(s) /\ pc[s] = "reg_save_user") => families' = families
       /\ (RegisterStep(s) /\ pc[s] \in {"reg_get_family", "reg_put_family"})
            => /\ loc[s].user_id \in DOMAIN users
               /\ users' = users
       /\ (LoginCalled(s) \/ pc[s] = "login_save") => session' = session
       /\ (pc[s] = "login_done" /\ session'[s] # session[s])
            => /\ loc[s].result[1]
               /\ CorrectPassword(loc[s].user_data, loc[s].args.password)]_vars

C23_Witness ==
  \E s \in Sessions :
    /\ pc[s] = "login_done"
    /\ loc[s].result[1]
    /\ SessionUserId(s) # loc[s].result[2].id
    /\ \E f \in DOMAIN families : Len(families[f].members) = 2

(* ====================== properties of initialize_app ================== *)
\* the step of session s is a run of initialize_app
InitStep(s) ==
  /\ pc[s] = "idle"
  /\ pc'[s] = "idle"
  /\ \E outcome \in InitOutcomes : session'[s] = initialize_app(session[s], outcome)

\* C24: initialize_app sets the session's user_id to empty only when the
\* session has no initialized flag yet; a later run leaves user_id as it is,
\* present or removed by a logout, and once initialized is true a run changes
\* nothing in the session.
C24_InitializesOnce ==
  [][\A s \in Sessions :
       InitStep(s)
         => /\ (Has(session[s], "initialized") /\ session[s]["initialized"])
                 => session'[s] = session[s]
            /\ Has(session[s], "initialized")
                 => /\ Has(session'[s], "user_id") <=> Has(session[s], "user_id")
                    /\ Has(session[s], "user_id")
                         => session'[s]["user_id"] = session[s]["user_id"]
            /\ ~Has(session[s], "initialized")
                 => /\ session'[s]["user_id"] = None
                    /\ Has(session'[s], "initialized")]_vars

\* an initialized session that was logged out and is authenticated again
C24_Witness ==
  \E s \in Sessions :
    /\ Ready(s)
    /\ HoldsActiveUser(s)
    /\ Has(session[s], "page")
    /\ ~Has(session[s], "notifications")

(* ========================= properties of main ========================= *)
\* session s holds what a run of main has shown
Rendered(s) == pc[s] = "main_rendered"

\* C25: a run of main shows the budget page only when the user record fetched
\* in that run has a role of rank PARENT or more: the sidebar offers the budget
\* entry only to such a user, and when the selected page is budget for a user
\* of rank below PARENT the run shows the permission warning.
C25_BudgetOnlyForParents ==
  \A s \in Sessions :
    Rendered(s)
      => /\ loc[s].rendered = "budget"
              => Rank(loc[s].user_data.role) >= Rank("parent")
         /\ "budget" \in loc[s].available_pages
              => Rank(loc[s].user_data.role) >= Rank("parent")
         /\ (loc[s].selected_page = "budget"
               /\ Rank(loc[s].user_data.role) < Rank("parent"))
              => loc[s].rendered = "permission_warning"

\* the page of the session was budget and its user is a CHILD now
C25_Witness ==
  \E s \in Sessions :
    /\ Rendered(s)
    /\ loc[s].selected_page = "budget"
    /\ loc[s].user_data.role = "child"
    /\ loc[s].rendered = "permission_warning"
    /\ session[s]["current_page"] = "budget"

\* C29: in every state is_authenticated() is true exactly when
\* get_current_user() returns a user; so a run of main that passed
\* is_authenticated() ends with "User is authenticated but data could not be
\* retrieved" only when the session's user, active at the first call, is no
\* longer active at the second.
C29_ReadsAgree ==
  /\ [](\A s \in Sessions :
          is_authenticated(session[s], StoredUserOf(session[s], users))
            <=> ~IsNone(get_current_user(session[s], StoredUserOf(session[s], users))))
  /\ [][\A s \in Sessions :
          /\ (pc[s] = "idle" /\ pc'[s] = "main_get_user")
               => HoldsActiveUser(s) /\ session'[s] = session[s]
          /\ (pc[s] = "main_get_user" /\ pc'[s] = "main_error")
               => ~HoldsActiveUser(s) /\ session'[s] = session[s]
          /\ (pc[s] = "main_get_user" /\ HoldsActiveUser(s))
               => pc'[s] \in {"main_get_user", "main_render"}]_vars

C29_Witness ==
  \E s \in Sessions :
    /\ pc[s] = "main_error"
    /\ SessionUserInactive(s)

\* C30: update_user_role called with an acting user whose stored is_active is
\* false returns false and changes no role, the acting user being an ADMIN
\* or not.
C30_InactiveAdminRefused ==
  [][\A s \in Sessions :
       (RoleCalled(s)
          /\ loc'[s].args.admin_user_id \in DOMAIN users
          /\ ~users[loc'[s].args.admin_user_id].is_active)
         => /\ pc'[s] = "role_done"
            /\ ~loc'[s].result
            /\ users' = users]_vars

(* ================ properties of the task and shopping services ======== *)
\* C26: after any sequence of update_task_status calls on a stored task, the
\* task's completed_at is set if and only if its status is DONE.
C26_CompletedIffDone ==
  \A t \in DOMAIN tasks :
    (tasks[t].completed_at # None) <=> (tasks[t].status = "done")

\* C27: after any sequence of toggle_item_purchased calls on a stored item,
\* the item's purchased_at is set if and only if is_purchased is true.
C27_PurchasedAtIffPurchased ==
  \A i \in DOMAIN shopping_items :
    (shopping_items[i].purchased_at # None) <=> shopping_items[i].is_purchased

\* C28: when delete_shopping_list returns, no stored item has the list_id of
\* the deleted list, whatever add_item_to_list calls ran meanwhile.
C28_DeleteLeavesNoItems ==
  [][\A s \in Sessions :
       (pc[s] = "delete_items" /\ pc'[s] = "delete_done")
         => /\ ~Has(shopping_lists', loc[s].list_id)
            /\ \A i \in DOMAIN shopping_items' :
                 shopping_items'[i].list_id # loc[s].list_id]_vars

====
